---- MODULE Spec2Model ----
(***************************************************************************)
(* A model of the sticker-pack converter bot (src/bot2.py, with the older  *)
(* variant src/bot.py where the two differ): the retrying fetchers, the    *)
(* bounded-concurrency download of a pack, the conversion routines, the    *)
(* chunking into groups of 30, the size guard and the delivery of the      *)
(* archives.                                                               *)
(*                                                                         *)
(* Indices are 0-based as in the code (file_list[idx], sticker_<idx>).     *)
(* Python lists are modelled as functions over 0..n-1 where the code       *)
(* indexes them and as sequences where it only appends and slices.         *)
(***************************************************************************)
EXTENDS Integers, Sequences, FiniteSets, TLC

(***************************************************************************)
(* Bounds of the model.                                                    *)
(***************************************************************************)
\* largest pack of a whole run of handle_link
MaxPack == 2
\* largest pack of a download_pack run on its own
MaxAcq == 4
\* largest pack of a download_pack run that fills the semaphore
MaxSem == 9
\* most fetches that exhaust their retries in such a run
MaxFail == 1
\* largest pack of a conversion stage on its own
MaxConv == 3
\* longest list handed to chunk_by_30 on its own
MaxFiles == 65
\* most converted files of a packaging stage on its own
MaxGroup == 31
\* most fetches that complete after the early starting point of SpecMid
MaxMid == 2
\* most tokens of a message text
MaxText == 3

(***************************************************************************)
(* Program constants.                                                      *)
(***************************************************************************)
\* retries=3 of _retry_fetch_json / _retry_fetch_bytes
RETRIES == 3
\* backoff=1.6, in tenths
BACKOFF_X10 == 16
\* asyncio.Semaphore(8)
SEM_CAPACITY == 8
\* chunk_by_30
CHUNK == 30
\* len(pack_files) > 15
MIN_SPLIT == 15
\* size > 48 * 1024 * 1024
CEILING == 48 * 1024 * 1024
MiB == 1024 * 1024

None == "None"

(***************************************************************************)
(* Small helpers on sequences.                                             *)
(***************************************************************************)
Min(a, b) == IF a <= b THEN a ELSE b

Max(a, b) == IF a >= b THEN a ELSE b

\* Python s[a:b] on a sequence, 0-based, end exclusive, both ends clipped
Slice(s, a, b) == SubSeq(s, a + 1, Min(b, Len(s)))

RECURSIVE Pow(_, _)
Pow(b, e) == IF e = 0 THEN 1 ELSE b * Pow(b, e - 1)

(***************************************************************************)
(* The retrying fetchers.                                                  *)
(*                                                                         *)
(* One attempt of session.get meets one of: a connection error (the get    *)
(* itself raises), or a response with a status and a body that can or      *)
(* cannot be read (resp.json() / resp.read() raising).  A response carries *)
(* the number of the request that produced it as its body, so that which   *)
(* body a fetch returns can be told.                                       *)
(***************************************************************************)
TRANSIENT == {429, 500, 502, 503, 504}

Statuses == {200, 400} \cup TRANSIENT

Outcomes ==
    {[conn |-> FALSE, status |-> st, readable |-> rd] :
        st \in Statuses, rd \in BOOLEAN}
    \cup {[conn |-> TRUE, status |-> 0, readable |-> FALSE]}

\* the exception one attempt ends with, or None when it returns the body
AttemptError(o) ==
    IF o.conn THEN "ClientConnectionError"
    ELSE IF o.status \in TRANSIENT THEN <<"ClientResponseError", o.status>>
    ELSE IF ~o.readable THEN "ClientPayloadError"
    ELSE None

\* asyncio.sleep(backoff ** i), in hundredths of a second
BackoffDelay(i) == (Pow(BACKOFF_X10, i) * 100) \div Pow(10, i)

\* the state of one call of a retrying fetcher before its first attempt
RetryStart(fetcher, resps) ==
    [fetcher |-> fetcher, resps |-> resps, pc |-> "request", i |-> 0,
     requests |-> 0, sleeps |-> <<>>, last |-> None, value |-> None]

\* the body of the try: one request, then return or remember the error
RetryBadRequest(s) ==
    LET o == s.resps[s.i + 1]
        e == AttemptError(o)
    IN  IF e = None
        THEN [s EXCEPT !.requests = @ + 1, !.pc = "returned",
                       !.value = <<"body", 1>>]
        ELSE [s EXCEPT !.requests = @ + 1, !.pc = "sleep", !.last = e]

RetryRequest(s) ==
    LET o == s.resps[s.i + 1]
        e == AttemptError(o)
    IN  IF e = None
        THEN [s EXCEPT !.requests = @ + 1, !.pc = "returned",
                       !.value = <<"body", s.i + 1>>]
        ELSE [s EXCEPT !.requests = @ + 1, !.pc = "sleep", !.last = e]

\* the except clause's sleep, then the next turn of the loop or raise last
RetrySleep(s) ==
    [s EXCEPT !.sleeps = Append(@, BackoffDelay(s.i)),
              !.i = @ + 1,
              !.pc = IF s.i + 1 < RETRIES THEN "request" ELSE "raised"]

RetryStep(s) ==
    IF s.pc = "request" THEN RetryRequest(s)
    ELSE IF s.pc = "sleep" THEN RetrySleep(s)
    ELSE s

\* a whole call, run to its end
RECURSIVE RetryRun(_)
RetryRun(s) ==
    IF s.pc \in {"returned", "raised"} THEN s ELSE RetryRun(RetryStep(s))

retry_fetch_json(resps) == RetryRun(RetryStart("json", resps))

retry_fetch_bytes(resps) == RetryRun(RetryStart("bytes", resps))

Fetchers == {"json", "bytes"}

RespSeqs == [1..RETRIES -> Outcomes]

\* the attempt outcomes the pipeline's fetches are run against: success at
\* once, success after one or two transient failures, the retries exhausted
\* (by transient statuses, by connection errors), and a response the retry
\* loop returns although the provider reports failure in it
Ok200 == [conn |-> FALSE, status |-> 200, readable |-> TRUE]

Bad400 == [conn |-> FALSE, status |-> 400, readable |-> TRUE]

Busy503 == [conn |-> FALSE, status |-> 503, readable |-> TRUE]

ConnErr == [conn |-> TRUE, status |-> 0, readable |-> FALSE]

NetCases ==
    {<<Ok200, Ok200, Ok200>>, <<Busy503, Ok200, Ok200>>,
     <<ConnErr, Busy503, Ok200>>, <<Busy503, Busy503, Busy503>>,
     <<Bad400, Ok200, Ok200>>}

\* (await _retry_fetch_json(session, url))["result"]: the fetcher's error, a
\* KeyError when the returned document has no "result", or None
JsonResultError(resps) ==
    LET r == retry_fetch_json(resps)
    IN  IF r.pc = "raised" THEN r.last
        ELSE IF resps[r.value[2]].status # 200 THEN "KeyError"
        ELSE None

BytesError(resps) ==
    LET r == retry_fetch_bytes(resps)
    IN  IF r.pc = "raised" THEN r.last ELSE None

\* what the fetches of the pipeline can end with
JsonErrors == {JsonResultError(r) : r \in NetCases}

BytesErrors == {BytesError(r) : r \in NetCases}

(***************************************************************************)
(* The pack and its files.                                                 *)
(***************************************************************************)
Kinds == {"static", "animated", "video"}

\* worker(): ext from the sticker's is_animated / is_video flags
Ext(kind) ==
    IF kind = "animated" THEN "tgs"
    ELSE IF kind = "video" THEN "webm"
    ELSE "png"

\* os.path.join(folder, f"{idx:03d}.{ext}")
OutPath(idx, kind) == <<idx, Ext(kind)>>

\* DualProgress._update: percent = int(current * 100 / total)
Percent(current, total) ==
    (Max(0, Min(Max(1, total), current)) * 100) \div Max(1, total)

\* the throttle state, had it been left alone when the status edit raised
LastPercentIfEdited(ok, percent, last) == IF ok THEN percent ELSE last

\* DualProgress._update: self._last_percent = percent, after the try/except
\* around the status edit.  ok: the edit did not raise
LastPercent(ok, percent, last) == percent

\* the throttle, had it asked for both the 2 points and the 0.5 s
ShouldEmitBoth(done, percent, last, late) ==
    done \/ (percent # last /\ percent - last >= 2 /\ late)

\* DualProgress._update: the throttle.  late: now - _last_time >= 0.5
ShouldEmit(done, percent, last, late) ==
    done \/ (percent # last /\ (percent - last >= 2 \/ late))

\* the values of "now - _last_time >= 0.5" that make a difference; before the
\* first emission _last_time is 0.0 and the comparison holds
Lates(percent, last) ==
    IF last = -1 THEN {TRUE}
    ELSE IF percent # last /\ percent - last < 2 THEN BOOLEAN
    ELSE {FALSE}

\* the text of a progress update, as far as the model tells texts apart
StatusText(label, percent, done) == <<label, percent, done>>

Labels == {"Download", "Convert", "Packing"}

AllTools == {"ffmpeg", "img2webp", "rlottie-convert"}

Fates == {"ok", "raise", "nofile"}

(***************************************************************************)
(* The text of a message, as a sequence of tokens: "P" is the substring     *)
(* "addstickers/", "a" a character of [A-Za-z0-9_], "-" any other           *)
(* character but white space.  A message that is a sticker or a photo has  *)
(* no text: message.text is None, the one-token sequence NoText here.       *)
(***************************************************************************)
NoText == <<"None">>

NoReply == <<>>

GoodLink == <<"-", "P", "a">>

RECURSIVE Texts(_)
Texts(n) ==
    IF n = 0 THEN {<<>>}
    ELSE Texts(n - 1) \cup
         {Append(t, c) : t \in {u \in Texts(n - 1) : Len(u) = n - 1},
                         c \in {"P", "a", "-"}}

\* ([A-Za-z0-9_]+) from position i: the longest run of word characters
RECURSIVE WordRun(_, _)
WordRun(t, i) ==
    IF i > Len(t) \/ t[i] # "a" THEN <<>>
    ELSE <<t[i]>> \o WordRun(t, i + 1)

\* LINK_RE.search(link): the positions where "addstickers/" is followed by a
\* word character
Matches(t) == {i \in 1..(Len(t) - 1) : t[i] = "P" /\ t[i + 1] = "a"}

\* extract_pack_name(message.text.strip()), as handle_link calls it: the
\* group of the leftmost match; ValueError when there is none; on a message
\* without text the call of strip raises AttributeError before it
extract_pack_name(t) ==
    IF t = NoText THEN [raised |-> "AttributeError", pack |-> <<>>]
    ELSE IF Matches(t) = {} THEN [raised |-> "ValueError", pack |-> <<>>]
    ELSE [raised |-> None,
          pack |-> WordRun(t, 1 + CHOOSE i \in Matches(t) :
                                    \A j \in Matches(t) : i <= j)]

\* str(e) of the exception caught around extract_pack_name
StrOf(raised) ==
    IF raised = "ValueError" THEN <<"invalid link">>
    ELSE <<"'NoneType' object has no attribute 'strip'">>

VARIABLES
    rf,         \* SpecRetry: the call of a retrying fetcher under way
    variant,    \* the source file run: "bot" (bot.py) or "bot2" (bot2.py)
    stickers,   \* the pack's manifest at the provider, 0-based
    tools,      \* the external tools _have() finds
    fate,       \* by item: what converting its file does (returns with the
                \* output written, raises, returns with no output written)
    mode,       \* handle_link: mode
    hl,         \* handle_link: where the coroutine stands
    err,        \* the exception a stage raised, or None
    dl,         \* download_pack: where the coroutine stands
    w,          \* download_pack: the worker tasks, by idx
    sem,        \* download_pack: the semaphore's free slots
    file_list,  \* download_pack: file_list
    files,      \* download_pack: the list it returns
    folder,     \* the files of stickers/<pack> on disk
    prog,       \* by stage label: its DualProgress's _last_percent
    sink,       \* the status message: what the remote sink shows
    console,    \* the console sink: the last progress line printed
    queue,      \* _update calls scheduled on the loop from the worker thread
    pend,       \* _update calls of the conversion awaiting the remote sink
    log,        \* what the conversion routine logged
    cv,         \* convert_static / convert_animated: where it stands
    names,      \* convert_*: names
    ci,         \* convert_*: files of names handled so far
    out,        \* convert_*: out
    ret,        \* what the blocking conversion routine returned, or None
    fsize,      \* by item: the bytes its converted file adds to an archive
    userMode,   \* USER_MODE.get(message.from_user.id), or None
    linkOk,     \* whether the message text holds a pack reference
    converted,  \* handle_link: converted
    packs,      \* handle_link: packs
    gi,         \* handle_link: idx of the packaging loop
    sent,       \* the archives the delivery channel accepted, in order
    notice,     \* the "all delivered" notices sent
    run2,       \* where a second handle_link run for the same pack stands
    text,       \* message.text, as tokens; NoText when the message has none
    reply       \* what message.reply was called with, or NoReply

\* what the stages of a run never assign: its inputs, the second run, and
\* the reply of the handler to a message it rejects
envvars ==
    <<variant, stickers, tools, fate, mode, fsize, linkOk, run2, text, reply>>

dlvars == <<dl, w, sem, file_list, files>>

cvvars == <<cv, names, ci, out, ret, queue, log>>

pkvars == <<userMode, converted, packs, gi, sent, notice>>

vars ==
    <<rf, envvars, hl, err, dlvars, folder, prog, sink, console, pend,
          cvvars, pkvars>>

Idx == DOMAIN stickers

total == Cardinality(Idx)

RfIdle == RetryStart("json", <<Ok200, Ok200, Ok200>>)

NoProgress == [l \in Labels |-> -1]

\* conversion and packaging not entered yet
CvIdle ==
    /\ queue = <<>>
    /\ pend = {}
    /\ log = <<>>
    /\ cv = "idle"
    /\ names = <<>>
    /\ ci = 0
    /\ out = <<>>
    /\ ret = None

PkIdle ==
    /\ converted = None
    /\ packs = None
    /\ gi = 0
    /\ sent = <<>>
    /\ notice = 0

(***************************************************************************)
(* SpecRetry: one call of a retrying fetcher, attempt by attempt, against  *)
(* every sequence of attempt outcomes.                                     *)
(***************************************************************************)
BotIdle ==
    /\ variant = "bot2"
    /\ stickers = << >>
    /\ tools = AllTools
    /\ fate = << >>
    /\ mode = None
    /\ hl = "idle"
    /\ err = None
    /\ dl = "idle"
    /\ w = << >>
    /\ sem = SEM_CAPACITY
    /\ file_list = << >>
    /\ files = None
    /\ folder = {}
    /\ prog = NoProgress
    /\ sink = <<"none">>
    /\ console = <<"none">>
    /\ queue = <<>>
    /\ pend = {}
    /\ log = <<>>
    /\ cv = "idle"
    /\ names = <<>>
    /\ ci = 0
    /\ out = <<>>
    /\ ret = None
    /\ fsize = << >>
    /\ userMode = None
    /\ linkOk = TRUE
    /\ run2 = "none"
    /\ text = GoodLink
    /\ reply = NoReply
    /\ PkIdle

InitRetry ==
    /\ \E f \in Fetchers, resps \in RespSeqs : rf = RetryStart(f, resps)
    /\ BotIdle

Rest ==
    <<envvars, hl, err, dlvars, folder, prog, sink, console, pend, cvvars,
          pkvars>>

RfRequest ==
    /\ rf.pc = "request"
    /\ rf' = RetryRequest(rf)
    /\ UNCHANGED Rest

RfSleep ==
    /\ rf.pc = "sleep"
    /\ rf' = RetrySleep(rf)
    /\ UNCHANGED Rest

NextRetry == RfRequest \/ RfSleep

SpecRetry == InitRetry /\ [][NextRetry]_vars

(***************************************************************************)
(* download_pack.                                                          *)
(***************************************************************************)
\* sum(1 for x in file_list if x)
Filled(fl) == Cardinality({i \in DOMAIN fl : fl[i] # None})

\* [x for x in file_list if x], as a sequence
RECURSIVE Compact(_, _)
Compact(fl, i) ==
    IF i \notin DOMAIN fl THEN <<>>
    ELSE IF fl[i] # None THEN <<fl[i]>> \o Compact(fl, i + 1)
    ELSE Compact(fl, i + 1)

\* file_list[idx] = out_path, had the code appended in order of arrival
FillByArrival(fl, idx, path) ==
    LET free == {k \in DOMAIN fl : fl[k] = None}
        first == CHOOSE k \in free : \A j \in free : k <= j
    IN  [fl EXCEPT ![first] = path]

\* file_list[idx] = out_path
FillSlot(fl, idx, path) == [fl EXCEPT ![idx] = path]

\* a semaphore that lets everyone in
SemNeverLocked(value) == FALSE

\* asyncio.Semaphore: no free slot, "async with sem" waits
SemLocked(value) == value <= 0

InFlight == {i \in DOMAIN w : w[i].pc \in {"fetching", "emitting"}}

Worker(pc, pct) == [pc |-> pc, pct |-> pct]

NotDl == <<rf, envvars, hl, pend, cvvars, pkvars>>

\* the directory, had download_pack prepared it before asking for the
\* manifest
PreparedFirst(e, f) == {}

\* the directory, had download_pack not removed what it held
PreparedKeeping(e, f) == f

\* the pack's directory after "result = await tg_get_sticker_set(...)": the
\* call raised (e # None) and nothing was touched, or it returned and
\* shutil.rmtree(folder), os.makedirs(folder) were run
Prepared(e, f) == IF e # None THEN f ELSE {}

\* tg_get_sticker_set returns or raises; on success the folder is emptied,
\* the tasks are created and each runs up to its first suspension: the first
\* SEM_CAPACITY enter the semaphore and start their request, the others wait
DlManifest ==
    /\ dl = "manifest"
    /\ \E e \in JsonErrors :
        IF e # None
        THEN /\ dl' = "raised"
             /\ err' = "Exception"
             /\ folder' = Prepared(e, folder)
             /\ UNCHANGED <<w, sem, file_list, prog>>
        ELSE /\ dl' = "gather"
             /\ err' = err
             /\ prog' = [prog EXCEPT !["Download"] = -1]
             /\ folder' = Prepared(e, folder)
             /\ sem' = Max(0, SEM_CAPACITY - total)
             /\ file_list' = [i \in Idx |-> None]
             /\ w' = [i \in Idx |->
                        Worker(IF i < SEM_CAPACITY THEN "fetching"
                               ELSE "queued", 0)]
    /\ UNCHANGED <<NotDl, files, sink, console>>

\* a waiting worker enters the semaphore when a slot is free
WorkerAcquire(i) ==
    /\ w[i].pc = "queued"
    /\ ~SemLocked(sem)
    /\ sem' = sem - 1
    /\ w' = [w EXCEPT ![i] = Worker("fetching", 0)]
    /\ UNCHANGED <<NotDl, err, dl, file_list, folder, files, prog, sink,
          console>>

\* tg_get_file_path and tg_download return or raise; on success the file is
\* written, the slot filled and the progress reported.  The first exception
\* of a worker is raised at once to the coroutine awaiting gather.
WorkerFetch(i) ==
    /\ w[i].pc = "fetching"
    /\ \E e1 \in JsonErrors, e2 \in BytesErrors :
        IF e1 # None \/ e2 # None
        THEN /\ w' = [w EXCEPT ![i] = Worker("failed", 0)]
             /\ sem' = sem + 1
             /\ dl' = IF dl = "gather" THEN "raised" ELSE dl
             /\ err' = IF dl = "gather" THEN "Exception" ELSE err
             /\ UNCHANGED <<file_list, folder>>
        ELSE LET fl == FillSlot(file_list, i, OutPath(i, stickers[i]))
                 pct == Percent(Filled(fl), total)
             IN  /\ file_list' = fl
                 /\ folder' = folder \cup {OutPath(i, stickers[i])}
                 /\ UNCHANGED <<dl, err>>
                 /\ \E late \in Lates(pct, prog["Download"]) :
                    IF ShouldEmit(FALSE, pct, prog["Download"], late)
                    THEN /\ w' = [w EXCEPT ![i] = Worker("emitting", pct)]
                         /\ sem' = sem
                    ELSE /\ w' = [w EXCEPT ![i] = Worker("done", 0)]
                         /\ sem' = sem + 1
    /\ UNCHANGED <<NotDl, files, prog, sink, console>>

\* set_status returns (or its exception is swallowed): the throttle state is
\* updated and the worker leaves the semaphore
WorkerEmitted(i) ==
    /\ w[i].pc = "emitting"
    /\ \E ok \in BOOLEAN :
        /\ sink' = IF ok THEN StatusText("Download", w[i].pct, FALSE)
                   ELSE sink
        /\ prog' = [prog EXCEPT
                       !["Download"] = LastPercent(ok, w[i].pct, prog["Download"])]
    /\ console' = StatusText("Download", w[i].pct, FALSE)
    /\ w' = [w EXCEPT ![i] = Worker("done", 0)]
    /\ sem' = sem + 1
    /\ UNCHANGED <<NotDl, err, dl, file_list, folder, files>>

\* gather returns once every worker has: files = [x for x in file_list if x],
\* then prog.done_async
DlGathered ==
    /\ dl = "gather"
    /\ \A i \in Idx : w[i].pc = "done"
    /\ files' = Compact(file_list, 0)
    /\ dl' = "done_emit"
    /\ UNCHANGED <<NotDl, err, w, sem, file_list, folder, prog, sink, console>>

DlDone ==
    /\ dl = "done_emit"
    /\ \E ok \in BOOLEAN :
        /\ sink' = IF ok THEN StatusText("Download", 100, TRUE)
                   ELSE sink
        /\ prog' = [prog EXCEPT
                       !["Download"] = LastPercent(ok, 100, prog["Download"])]
    /\ console' = StatusText("Download", 100, TRUE)
    /\ dl' = "returned"
    /\ UNCHANGED <<NotDl, err, w, sem, file_list, folder, files>>

(***************************************************************************)
(* SpecAcq: download_pack on its own, for packs of up to MaxAcq items:      *)
(* fewer than the semaphore has slots, so that no worker waits for one     *)
(* (WorkerAcquire is never enabled; SpecSem has the larger packs).         *)
(***************************************************************************)
InitDl(maxn) ==
    /\ rf = RfIdle
    /\ variant \in {"bot", "bot2"}
    /\ \E n \in 1..maxn : stickers = [i \in 0..(n - 1) |-> "static"]
    /\ tools = AllTools
    /\ fate = [i \in Idx |-> "ok"]
    /\ mode = "static"
    /\ hl = "download"
    /\ err = None
    /\ dl = "manifest"
    /\ w = << >>
    /\ sem = SEM_CAPACITY
    /\ file_list = << >>
    /\ files = None
    /\ folder = {}
    /\ prog = NoProgress
    /\ sink = <<"checking">>
    /\ console = <<"none">>
    /\ CvIdle
    /\ fsize = [i \in Idx |-> MiB]
    /\ userMode = mode
    /\ linkOk = TRUE
    /\ run2 = "none"
    /\ text = GoodLink
    /\ reply = NoReply
    /\ PkIdle

NextAcq ==
    \/ DlManifest
    \/ \E i \in DOMAIN w : WorkerFetch(i)
    \/ \E i \in DOMAIN w : WorkerEmitted(i)
    \/ DlGathered
    \/ DlDone

InitAcq == InitDl(MaxAcq)

SpecAcq == InitAcq /\ [][NextAcq]_vars

(***************************************************************************)
(* SpecSem: download_pack for packs larger than the semaphore, in an       *)
(* environment where the remote sink answers at once and accepts every     *)
(* edit (a status edit under way completes before anything else happens)   *)
(* and at most MaxFail fetches exhaust their retries.                      *)
(***************************************************************************)
InitSem == InitDl(MaxSem) /\ variant = "bot2"

NoEdit == \A i \in DOMAIN w : w[i].pc # "emitting"

FewFail == Cardinality({i \in DOMAIN w' : w'[i].pc = "failed"}) <= MaxFail

NextSem ==
    \/ NoEdit /\ DlManifest
    \/ \E i \in DOMAIN w : NoEdit /\ WorkerAcquire(i)
    \/ \E i \in DOMAIN w : NoEdit /\ WorkerFetch(i) /\ FewFail
    \/ \E i \in DOMAIN w :
          WorkerEmitted(i) /\ sink' = StatusText("Download", w[i].pct, FALSE)
    \/ NoEdit /\ DlGathered
    \/ DlDone /\ sink' = StatusText("Download", 100, TRUE)

SpecSem == InitSem /\ [][NextSem]_vars

(***************************************************************************)
(* SpecMid: download_pack on a pack of BigPack items, taken up where the   *)
(* first EarlyDone or the first LateDone items have been fetched in order  *)
(* and reported, the status message showing the last of these reports.     *)
(* From the early point the run is followed for MaxMid more fetches, from  *)
(* the late point to its end.  No fetch fails and waiting workers enter    *)
(* the semaphore in the order of their creation.                           *)
(***************************************************************************)
BigPack == 102

EarlyDone == 50

LateDone == 99

InitMid ==
    /\ rf = RfIdle
    /\ variant = "bot2"
    /\ stickers = [i \in 0..(BigPack - 1) |-> "static"]
    /\ tools = AllTools
    /\ fate = [i \in Idx |-> "ok"]
    /\ mode = "static"
    /\ hl = "download"
    /\ err = None
    /\ dl = "gather"
    /\ \E k \in {EarlyDone, LateDone} :
          /\ w = [i \in Idx |->
                    Worker(IF i < k THEN "done"
                           ELSE IF i < k + SEM_CAPACITY THEN "fetching"
                           ELSE "queued", 0)]
          /\ sem = Max(0, SEM_CAPACITY - (BigPack - k))
          /\ file_list = [i \in Idx |->
                            IF i < k THEN OutPath(i, stickers[i]) ELSE None]
          /\ folder = {OutPath(i, stickers[i]) : i \in 0..(k - 1)}
          /\ prog = [NoProgress EXCEPT !["Download"] = Percent(k, BigPack)]
          /\ sink = StatusText("Download", Percent(k, BigPack), FALSE)
          /\ console = StatusText("Download", Percent(k, BigPack), FALSE)
    /\ files = None
    /\ CvIdle
    /\ fsize = [i \in Idx |-> MiB]
    /\ userMode = mode
    /\ linkOk = TRUE
    /\ run2 = "none"
    /\ text = GoodLink
    /\ reply = NoReply
    /\ PkIdle

\* the worker created first among those waiting
FirstQueued(i) == \A j \in DOMAIN w : w[j].pc = "queued" => i <= j

NextMid ==
    \/ \E i \in DOMAIN w : WorkerAcquire(i) /\ FirstQueued(i)
    \/ \E i \in DOMAIN w :
          /\ Filled(file_list) # EarlyDone + MaxMid
          /\ WorkerFetch(i)
          /\ w'[i].pc # "failed"
    \/ \E i \in DOMAIN w : WorkerEmitted(i)
    \/ DlGathered
    \/ DlDone

SpecMid == InitMid /\ [][NextMid]_vars

(***************************************************************************)
(* convert_static and convert_animated.                                    *)
(*                                                                         *)
(* The blocking routine runs in a worker thread (asyncio.to_thread), one   *)
(* file of names per step.  In bot2.py it is _run, which reports through   *)
(* tick_ts / done_ts: run_coroutine_threadsafe schedules the _update call  *)
(* on the loop.  In bot.py it is _run_with_progress (static) and           *)
(* _convert_animated_blocking (animated, called by _run_with_progress),    *)
(* and the report is prog.tick: asyncio.get_running_loop() in a thread     *)
(* that runs no loop, which raises RuntimeError.                           *)
(***************************************************************************)
\* sorted(os.listdir(folder)), kept to the extensions in exts: names are
\* f"{idx:03d}.{ext}", so the order is that of idx
RECURSIVE SortedPaths(_)
SortedPaths(S) ==
    IF S = {} THEN <<>>
    ELSE LET first == CHOOSE p \in S : \A q \in S : p[1] <= q[1]
         IN  <<first>> \o SortedPaths(S \ {first})

ListDir(dir, exts) == SortedPaths({p \in dir : p[2] \in exts})

\* os.path.join(out_dir, name + ".webp")
Dst(path) == <<path[1], "webp">>

\* convert_animated: the tools without which the routine raises at once
ToolsMissing == ~("ffmpeg" \in tools /\ "img2webp" \in tools)

\* convert_animated, one file, had out.append(dst) not depended on the tool
AnimItemAppendsAlways(path) ==
    IF path[2] \in {"tgs", "webm"} THEN "made" ELSE "nothing"

\* convert_animated, one file: "made" (dst exists afterwards), "raised" (the
\* tool invocation raised, caught and logged), "skipped" (.tgs without
\* rlottie-convert), "nothing" (no tool ran, or it left no output)
AnimItem(path) ==
    IF path[2] = "tgs"
    THEN IF "rlottie-convert" \in tools
         THEN CASE fate[path[1]] = "ok" -> "made"
                [] fate[path[1]] = "raise" -> "raised"
                [] OTHER -> "nothing"
         ELSE "skipped"
    ELSE IF path[2] = "webm"
    THEN CASE fate[path[1]] = "ok" -> "made"
           [] fate[path[1]] = "raise" -> "raised"
           [] OTHER -> "nothing"
    ELSE "nothing"

Tick(current) == [current |-> current, done |-> FALSE]

Done(current) == [current |-> current, done |-> TRUE]

ctotal == Max(1, Len(names))

NotCv == <<rf, envvars, hl, dlvars, folder, sink, console, pend, pkvars>>

\* the stage is entered: names, the DualProgress, and the thread is started;
\* convert_animated's routine first checks its tools
ConvStart ==
    /\ hl = "convert"
    /\ cv = "idle"
    /\ names' = IF mode = "static" THEN ListDir(folder, {"png", "webp"})
                ELSE ListDir(folder, {"png", "tgs", "webm", "webp"})
    /\ prog' = [prog EXCEPT !["Convert"] = -1]
    /\ ci' = 0
    /\ out' = <<>>
    /\ IF mode = "anim" /\ ToolsMissing
       THEN cv' = "thread_raised" /\ err' = "RuntimeError"
       ELSE cv' = "loop" /\ err' = err
    /\ UNCHANGED <<NotCv, ret, queue, log>>

\* one turn of the routine's loop; Image.open raises on a file that is gone
ConvItem ==
    /\ cv = "loop"
    /\ ci < Len(names)
    /\ LET path == names[ci + 1] IN
       IF mode = "static"
       THEN IF fate[path[1]] = "raise" \/ path \notin folder
            THEN /\ cv' = "thread_raised"
                 /\ err' = "Exception"
                 /\ UNCHANGED <<ci, out, queue, log>>
            ELSE /\ out' = Append(out, Dst(path))
                 /\ ci' = ci + 1
                 /\ log' = log
                 /\ IF variant = "bot2"
                    THEN /\ queue' = Append(queue, Tick(ci + 1))
                         /\ UNCHANGED <<cv, err>>
                    ELSE /\ cv' = "thread_raised"
                         /\ err' = "RuntimeError"
                         /\ queue' = queue
       ELSE /\ out' = IF AnimItem(path) = "made"
                      THEN Append(out, Dst(path)) ELSE out
            /\ log' = IF AnimItem(path) = "raised"
                      THEN Append(log, <<"warning", path>>)
                      ELSE IF AnimItem(path) = "skipped"
                      THEN Append(log, <<"info", path>>)
                      ELSE log
            /\ ci' = ci + 1
            /\ queue' = IF variant = "bot2"
                        THEN Append(queue, Tick(ci + 1)) ELSE queue
            /\ UNCHANGED <<cv, err>>
    /\ UNCHANGED <<NotCv, prog, names, ret>>

\* the loop is over: the routine returns out.  bot2.py reports done_ts before;
\* bot.py's _run_with_progress of convert_animated then calls prog.tick(1)
ConvLoopEnd ==
    /\ cv = "loop"
    /\ ci = Len(names)
    /\ ret' = out
    /\ IF variant = "bot2"
       THEN /\ queue' = Append(queue, Done(ctotal))
            /\ cv' = "thread_done"
            /\ err' = err
       ELSE /\ queue' = queue
            /\ IF mode = "anim"
               THEN cv' = "thread_raised" /\ err' = "RuntimeError"
               ELSE cv' = "thread_done" /\ err' = err
    /\ UNCHANGED <<NotCv, prog, names, ci, out, log>>

\* the loop runs a scheduled _update call up to its await of the remote sink
UpdateStart ==
    /\ queue # <<>>
    /\ LET u == Head(queue)
           pct == Percent(u.current, ctotal)
       IN  \E late \in Lates(pct, prog["Convert"]) :
              pend' = IF ShouldEmit(u.done, pct, prog["Convert"], late)
                      THEN pend \cup {[current |-> u.current, pct |-> pct,
                                       done |-> u.done]}
                      ELSE pend
    /\ queue' = Tail(queue)
    /\ UNCHANGED <<rf, envvars, hl, err, dlvars, folder, prog, sink, console,
                   cv, names, ci, out, ret, log, pkvars>>

\* the remote sink answers an _update call of the conversion
UpdateReturn(u) ==
    /\ u \in pend
    /\ \E ok \in BOOLEAN :
        /\ sink' = IF ok THEN StatusText("Convert", u.pct, u.done)
                   ELSE sink
        /\ prog' = [prog EXCEPT
                       !["Convert"] = LastPercent(ok, u.pct, prog["Convert"])]
    /\ console' = StatusText("Convert", u.pct, u.done)
    /\ pend' = pend \ {u}
    /\ UNCHANGED <<rf, envvars, hl, err, dlvars, folder, cvvars, pkvars>>

\* the thread has ended and the awaiting coroutine is resumed, after the
\* calls the thread scheduled before its end were started; bot.py then
\* awaits prog.done_async
ConvResume ==
    /\ cv \in {"thread_done", "thread_raised"}
    /\ queue = <<>>
    /\ cv' = IF cv = "thread_raised" THEN "raised"
             ELSE IF variant = "bot2" THEN "returned" ELSE "done_emit"
    /\ UNCHANGED <<NotCv, err, prog, names, ci, out, ret, queue, log>>

ConvDone ==
    /\ cv = "done_emit"
    /\ \E ok \in BOOLEAN :
        /\ sink' = IF ok THEN StatusText("Convert", 100, TRUE)
                   ELSE sink
        /\ prog' = [prog EXCEPT
                       !["Convert"] = LastPercent(ok, 100, prog["Convert"])]
    /\ console' = StatusText("Convert", 100, TRUE)
    /\ cv' = "returned"
    /\ UNCHANGED <<rf, envvars, hl, err, dlvars, folder, pend,
                   names, ci, out, ret, queue, log, pkvars>>

(***************************************************************************)
(* SpecConv: the conversion stage on its own, entered after a download     *)
(* that returned, for every pack of up to MaxConv items, every set of      *)
(* tools and every fate of every file, in an environment where the loop    *)
(* and the remote sink are prompt: an _update call the thread scheduled is *)
(* run, and its status edit accepted, before the thread goes on.           *)
(***************************************************************************)
KindSeqs(n) == [0..(n - 1) -> Kinds]

\* the fates that make a difference: none for a file no tool is run on
FatesOf(md, kind) ==
    IF md = "static"
    THEN IF kind = "static" THEN {"ok", "raise"} ELSE {"ok"}
    ELSE IF kind = "static" THEN {"ok"} ELSE Fates

\* the state download_pack leaves when it returns
Downloaded ==
    /\ err = None
    /\ dl = "returned"
    /\ w = [i \in Idx |-> Worker("done", 0)]
    /\ sem = SEM_CAPACITY
    /\ file_list = [i \in Idx |-> OutPath(i, stickers[i])]
    /\ files = Compact(file_list, 0)
    /\ folder = {OutPath(i, stickers[i]) : i \in Idx}
    /\ prog = [NoProgress EXCEPT !["Download"] = 100]
    /\ sink = StatusText("Download", 100, TRUE)
    /\ console = StatusText("Download", 100, TRUE)

InitConv ==
    /\ rf = RfIdle
    /\ variant \in {"bot", "bot2"}
    /\ \E n \in 1..MaxConv : stickers \in KindSeqs(n)
    /\ mode \in {"static", "anim"}
    /\ tools \in IF mode = "static" THEN {AllTools} ELSE SUBSET AllTools
    /\ fate \in [Idx -> Fates]
    /\ \A i \in Idx : fate[i] \in FatesOf(mode, stickers[i])
    /\ hl = "convert"
    /\ Downloaded
    /\ CvIdle
    /\ fsize = [i \in Idx |-> MiB]
    /\ userMode = mode
    /\ linkOk = TRUE
    /\ run2 = "none"
    /\ text = GoodLink
    /\ reply = NoReply
    /\ PkIdle

Quiet == queue = <<>> /\ pend = {}

NextConv ==
    \/ Quiet /\ ConvStart
    \/ Quiet /\ ConvItem
    \/ Quiet /\ ConvLoopEnd
    \/ UpdateStart
    \/ \E u \in pend :
          UpdateReturn(u) /\ sink' = StatusText("Convert", u.pct, u.done)
    \/ Quiet /\ ConvResume
    \/ ConvDone /\ sink' = StatusText("Convert", 100, TRUE)

SpecConv == InitConv /\ [][NextConv]_vars

(***************************************************************************)
(* Packaging: chunk_by_30, build_pack_zip and the size guard.              *)
(***************************************************************************)
\* [files[i:i+30] for i in range(0, len(files), 30)], from offset i on
RECURSIVE ChunkFrom(_, _, _)
ChunkFrom(fs, i, width) ==
    IF i >= Len(fs) THEN <<>>
    ELSE <<Slice(fs, i, i + width)>> \o ChunkFrom(fs, i + CHUNK, width)

\* the chunking, had the slices been one item short
chunk_by_29(fs) == ChunkFrom(fs, 0, CHUNK - 1)

chunk_by_30(fs) == ChunkFrom(fs, 0, CHUNK)

\* pack = extract_pack_name(message.text.strip()): the identifier in the link
PackId == "demo"

\* the names build_pack_zip is called with: pack, f"{pack}_A", f"{pack}_B"
PackName(part) == IF part = "" THEN <<PackId>> ELSE <<PackId, "_", part>>

\* f"{pack_index:02d}": the decimal digits, at least two
RECURSIVE Digits(_)
Digits(n) == IF n < 10 THEN <<n>> ELSE Digits(n \div 10) \o <<n % 10>>

Fmt02(n) == IF n < 10 THEN <<0, n>> ELSE Digits(n)

\* f"{packname} (Pack {pack_index:02d})"
Title(packname, pack_index) == packname \o <<" (Pack ", Fmt02(pack_index), ")">>

\* the archive build_pack_zip writes: author.txt, title.txt, icon.png from
\* the first file, and the files as sticker_0.webp, sticker_1.webp, ...
build_pack_zip(packname, pack_index, fs) ==
    [author |-> packname, title |-> Title(packname, pack_index),
     icon |-> fs[1], stickers |-> fs,
     names |-> [k \in 1..Len(fs) |-> <<"sticker_", k - 1, ".webp">>]]

\* the bytes of an archive besides its stickers
ZipBase == 4096

RECURSIVE SumSize(_)
SumSize(fs) ==
    IF fs = <<>> THEN 0 ELSE fsize[Head(fs)[1]] + SumSize(Tail(fs))

zip_size(buf) == ZipBase + SumSize(buf.stickers)

\* the size guard, had it never split
SizeGuardOff(size, n) == FALSE

\* if size > 48 * 1024 * 1024 and len(pack_files) > 15
SizeGuard(size, n) == size > CEILING /\ n > MIN_SPLIT

\* whether the group is sent as two archives
Splits(fs) == SizeGuard(zip_size(build_pack_zip(PackName(""), 0, fs)), Len(fs))

\* half = len(pack_files) // 2
Half(fs) == Len(fs) \div 2

\* pack_files[:half]
PartA(fs) == Slice(fs, 0, Half(fs))

\* the second part, had it left out the member at half
PartBAfterHalf(fs) == Slice(fs, Half(fs) + 1, Len(fs))

\* pack_files[half:]
PartB(fs) == Slice(fs, Half(fs), Len(fs))

\* what send_zip_safely is called with for group idx: its parts in order
Parts(ps, idx) ==
    IF Splits(ps[idx])
    THEN <<[filename |-> <<idx, "A">>,
            buf |-> build_pack_zip(PackName("A"), idx, PartA(ps[idx]))],
           [filename |-> <<idx, "B">>,
            buf |-> build_pack_zip(PackName("B"), idx, PartB(ps[idx]))]>>
    ELSE <<[filename |-> <<idx, "">>,
            buf |-> build_pack_zip(PackName(""), idx, ps[idx])]>>

\* the packaging loop, had it ended after its first turn
PackPcOneTurn(ps, idx) ==
    IF idx > Min(1, Len(ps)) THEN "pack_done"
    ELSE IF Splits(ps[idx]) THEN "sendA"
    ELSE "send"

\* where the packaging loop stands on entering the turn of group idx
PackPc(ps, idx) ==
    IF idx > Len(ps) THEN "pack_done"
    ELSE IF Splits(ps[idx]) THEN "sendA"
    ELSE "send"

(***************************************************************************)
(* handle_link.                                                            *)
(***************************************************************************)
\* the handler, had it gone on after a download that raised
AfterDownloadIgnoringError(d) == "convert"

\* await download_pack(...): it returns, or raises into the except clauses
AfterDownload(d) == IF d = "returned" THEN "convert" ELSE "fail_status"

NotHl == <<rf, envvars, dlvars, folder, pend, cvvars>>

\* mode = USER_MODE.get(...); extract_pack_name(message.text.strip())
HlStart ==
    /\ hl = "received"
    /\ hl' = IF mode \notin {"static", "anim"} THEN "ignored"
             ELSE IF extract_pack_name(text).raised # None THEN "reply"
             ELSE "answer"
    /\ UNCHANGED <<NotHl, err, prog, sink, console, pkvars>>

\* await message.reply(str(e)); return
HlReplied ==
    /\ hl = "reply"
    /\ \E ok \in BOOLEAN :
        /\ hl' = IF ok THEN "invalid" ELSE "crashed"
        /\ reply' = IF ok THEN StrOf(extract_pack_name(text).raised)
                  ELSE reply
    /\ UNCHANGED <<rf, variant, stickers, tools, fate, mode, fsize, linkOk,
                   run2, text, dlvars, folder, pend, cvvars, err, prog, sink,
                   console, pkvars>>

\* status = await message.answer(...), outside the try; then download_pack
\* is called and runs up to its first request
HlAnswered ==
    /\ hl = "answer"
    /\ \E ok \in BOOLEAN :
        IF ok
        THEN /\ hl' = "download"
             /\ dl' = "manifest"
             /\ sink' = <<"checking">>
        ELSE /\ hl' = "crashed"
             /\ UNCHANGED <<dl, sink>>
    /\ UNCHANGED <<rf, envvars, w, sem, file_list, files, folder, pend,
                   cvvars, err, prog, console, pkvars>>

HlDownloaded ==
    /\ hl = "download"
    /\ dl \in {"returned", "raised"}
    /\ hl' = AfterDownload(dl)
    /\ UNCHANGED <<NotHl, err, prog, sink, console, pkvars>>

\* the handler, had it packaged whatever the conversion returned
AlwaysSomething(c) == FALSE

\* if not converted
NothingConverted(c) == c = <<>>

\* converted, _ = await convert_*(...); if not converted: ...;
\* packs = chunk_by_30(converted), the DualProgress, and the first turn of
\* the loop up to its first send
HlConverted ==
    /\ hl = "convert"
    /\ cv \in {"returned", "raised"}
    /\ IF cv = "raised"
       THEN /\ hl' = "fail_status"
            /\ UNCHANGED <<converted, packs, gi, prog>>
       ELSE /\ converted' = ret
            /\ IF NothingConverted(ret)
               THEN /\ hl' = "empty_status"
                    /\ UNCHANGED <<packs, gi, prog>>
               ELSE /\ packs' = chunk_by_30(ret)
                    /\ prog' = [prog EXCEPT !["Packing"] = -1]
                    /\ gi' = 1
                    /\ hl' = PackPc(packs', 1)
    /\ UNCHANGED <<NotHl, err, sink, console, userMode, sent, notice>>

\* await set_status(nothing to convert); USER_MODE.pop(...); return
HlEmptyStatus ==
    /\ hl = "empty_status"
    /\ \E ok \in BOOLEAN : sink' = IF ok THEN <<"empty">> ELSE sink
    /\ console' = console
    /\ userMode' = None
    /\ hl' = "empty"
    /\ UNCHANGED <<NotHl, err, prog, converted, packs, gi, sent, notice>>

\* the loop, had it gone on to the next archive after a send that raised
AfterSendSkipping(pc) == IF pc = "sendA" THEN "sendB" ELSE "pack_done"

\* send_zip_safely has no try and the loop has none: the exception of
\* answer_document leaves the loop for the except clauses of handle_link
AfterSendFailure(pc) == "fail_status"

\* send_zip_safely returns or raises; after the group's last archive,
\* prog_pk.tick_async(idx)
PkSend ==
    /\ hl \in {"send", "sendA", "sendB"}
    /\ \E ok \in BOOLEAN :
        IF ~ok
        THEN /\ err' = "Exception"
             /\ hl' = AfterSendFailure(hl)
             /\ UNCHANGED <<sent, gi>>
        ELSE /\ err' = err
             /\ sent' = Append(sent,
                               Parts(packs, gi)[IF hl = "sendB" THEN 2 ELSE 1])
             /\ IF hl = "sendA"
                THEN hl' = "sendB" /\ gi' = gi
                ELSE LET pct == Percent(gi, Len(packs)) IN
                     \E late \in Lates(pct, prog["Packing"]) :
                        IF ShouldEmit(FALSE, pct, prog["Packing"], late)
                        THEN hl' = "pack_tick" /\ gi' = gi
                        ELSE hl' = PackPc(packs, gi + 1) /\ gi' = gi + 1
    /\ UNCHANGED <<NotHl, prog, sink, console, userMode, converted, packs,
          notice>>

\* the status edit of tick_async returns; the loop goes on to the next group
PkTicked ==
    /\ hl = "pack_tick"
    /\ \E ok \in BOOLEAN :
        /\ sink' = IF ok THEN StatusText("Packing", Percent(gi, Len(packs)), FALSE)
                   ELSE sink
        /\ prog' = [prog EXCEPT
                       !["Packing"] = LastPercent(ok, Percent(gi, Len(packs)), prog["Packing"])]
    /\ console' = StatusText("Packing", Percent(gi, Len(packs)), FALSE)
    /\ gi' = gi + 1
    /\ hl' = PackPc(packs, gi + 1)
    /\ UNCHANGED <<NotHl, err, userMode, converted, packs, sent, notice>>

\* await prog_pk.done_async()
PkDone ==
    /\ hl = "pack_done"
    /\ \E ok \in BOOLEAN :
        /\ sink' = IF ok THEN StatusText("Packing", 100, TRUE)
                   ELSE sink
        /\ prog' = [prog EXCEPT
                       !["Packing"] = LastPercent(ok, 100, prog["Packing"])]
    /\ console' = StatusText("Packing", 100, TRUE)
    /\ hl' = "notice"
    /\ UNCHANGED <<NotHl, err, pkvars>>

\* await message.answer(all delivered); finally: USER_MODE.pop(...)
HlNotice ==
    /\ hl = "notice"
    /\ \E ok \in BOOLEAN :
        IF ok
        THEN /\ notice' = notice + 1
             /\ userMode' = None
             /\ hl' = "delivered"
             /\ err' = err
        ELSE /\ err' = "Exception"
             /\ hl' = "fail_status"
             /\ UNCHANGED <<notice, userMode>>
    /\ UNCHANGED <<NotHl, prog, sink, console, converted, packs, gi, sent>>

\* except RuntimeError / except Exception: await set_status(failure);
\* finally: USER_MODE.pop(...)
HlFailStatus ==
    /\ hl = "fail_status"
    /\ \E ok \in BOOLEAN : sink' = IF ok THEN <<"failed", err>> ELSE sink
    /\ console' = console
    /\ userMode' = None
    /\ hl' = "failed"
    /\ UNCHANGED <<NotHl, err, prog, converted, packs, gi, sent, notice>>

\* chunk_by_30 called on its own
ChunkCall ==
    /\ hl = "chunk"
    /\ packs' = chunk_by_30(converted)
    /\ hl' = "chunked"
    /\ UNCHANGED <<NotHl, err, prog, sink, console, userMode, converted, gi,
          sent,
                   notice>>

(***************************************************************************)
(* Spec: a message handled by handle_link from its receipt to the          *)
(* handler's end, for packs of up to MaxPack items, stills first and       *)
(* videos last, of which at most one does not convert.  The packs are      *)
(* smaller than the semaphore, so that no worker waits for a slot.         *)
(***************************************************************************)
ToolSets == {AllTools, {"ffmpeg", "img2webp"}, {"ffmpeg"}}

KindRank(kind) ==
    IF kind = "static" THEN 0 ELSE IF kind = "animated" THEN 1 ELSE 2

\* the packs of n items, the stills first and the videos last
GroupedKindSeqs(n) ==
    {ks \in KindSeqs(n) :
        \A i \in DOMAIN ks : \A j \in DOMAIN ks :
            i < j => KindRank(ks[i]) <= KindRank(ks[j])}

Init ==
    /\ rf = RfIdle
    /\ variant \in {"bot", "bot2"}
    /\ \E n \in 0..MaxPack : stickers \in GroupedKindSeqs(n)
    /\ userMode \in {None, "static", "anim"}
    /\ mode = userMode
    /\ text \in {GoodLink, <<"a">>, NoText}
    /\ linkOk = (extract_pack_name(text).raised = None)
    /\ run2 = "none"
    /\ reply = NoReply
    /\ tools \in IF mode = "anim" /\ linkOk THEN ToolSets ELSE {AllTools}
    /\ fate \in [Idx -> Fates]
    /\ \A i \in Idx :
          fate[i] \in IF mode = None \/ ~linkOk THEN {"ok"}
                      ELSE FatesOf(mode, stickers[i])
    /\ Cardinality({i \in Idx : fate[i] # "ok"}) <= 1
    /\ hl = "received"
    /\ err = None
    /\ dl = "idle"
    /\ w = << >>
    /\ sem = SEM_CAPACITY
    /\ file_list = << >>
    /\ files = None
    /\ folder = {}
    /\ prog = NoProgress
    /\ sink = <<"none">>
    /\ console = <<"none">>
    /\ CvIdle
    /\ fsize = [i \in Idx |-> MiB]
    /\ PkIdle

Next ==
    \/ HlStart
    \/ HlReplied
    \/ HlAnswered
    \/ DlManifest
    \/ \E i \in DOMAIN w : WorkerFetch(i)
    \/ \E i \in DOMAIN w : WorkerEmitted(i)
    \/ DlGathered
    \/ DlDone
    \/ HlDownloaded
    \/ ConvStart
    \/ ConvItem
    \/ ConvLoopEnd
    \/ UpdateStart
    \/ \E u \in pend : UpdateReturn(u)
    \/ ConvResume
    \/ ConvDone
    \/ HlConverted
    \/ HlEmptyStatus
    \/ PkSend
    \/ PkTicked
    \/ PkDone
    \/ HlNotice
    \/ HlFailStatus

Spec == Init /\ [][Next]_vars

(***************************************************************************)
(* SpecTwo: a run of bot2.py's handler in mode static on a pack of stills  *)
(* that all download and convert, while a second link message naming the   *)
(* same pack is handled: start_polling runs each update's handler as a     *)
(* task of its own.  The second run is followed up to the point where its  *)
(* download_pack has removed and recreated the pack's directory.           *)
(***************************************************************************)
NotRun2 ==
    <<rf, variant, stickers, tools, fate, mode, fsize, linkOk, text, reply,
      hl, err, dlvars, prog, sink, console, pend, cvvars, pkvars>>

\* the second handler passes its mode and link checks, answers and calls
\* download_pack, which awaits the manifest
Run2Start ==
    /\ run2 = "received"
    /\ run2' = "manifest"
    /\ UNCHANGED <<NotRun2, folder>>

\* the second run's tg_get_sticker_set returns or raises; on success
\* shutil.rmtree(folder) and os.makedirs(folder)
Run2Manifest ==
    /\ run2 = "manifest"
    /\ \E e \in JsonErrors :
        /\ run2' = IF e # None THEN "failed" ELSE "gather"
        /\ folder' = Prepared(e, folder)
    /\ UNCHANGED NotRun2

InitTwo ==
    /\ rf = RfIdle
    /\ variant = "bot2"
    /\ \E n \in 1..MaxPack : stickers = [i \in 0..(n - 1) |-> "static"]
    /\ tools = AllTools
    /\ fate = [i \in Idx |-> "ok"]
    /\ mode = "static"
    /\ userMode = mode
    /\ linkOk = TRUE
    /\ run2 = "received"
    /\ text = GoodLink
    /\ reply = NoReply
    /\ fsize = [i \in Idx |-> MiB]
    /\ hl = "received"
    /\ err = None
    /\ dl = "idle"
    /\ w = <<>>
    /\ sem = SEM_CAPACITY
    /\ file_list = <<>>
    /\ files = None
    /\ folder = {}
    /\ prog = NoProgress
    /\ sink = <<"none">>
    /\ console = <<"none">>
    /\ CvIdle
    /\ PkIdle

NextTwo ==
    \/ Run2Start
    \/ Run2Manifest
    \/ HlStart
    \/ HlAnswered
    \/ DlManifest
    \/ \E i \in DOMAIN w : WorkerFetch(i)
    \/ \E i \in DOMAIN w : WorkerEmitted(i)
    \/ DlGathered
    \/ DlDone
    \/ HlDownloaded
    \/ ConvStart
    \/ ConvItem
    \/ ConvLoopEnd
    \/ UpdateStart
    \/ \E u \in pend : UpdateReturn(u)
    \/ ConvResume
    \/ HlConverted
    \/ HlEmptyStatus
    \/ PkSend
    \/ PkTicked
    \/ PkDone
    \/ HlNotice
    \/ HlFailStatus

SpecTwo == InitTwo /\ [][NextTwo]_vars

(***************************************************************************)
(* SpecStale: a run of bot2.py's handler on a pack whose directory holds   *)
(* files of an earlier run of the same identifier: a file whose name the   *)
(* new run writes too, a file of an item the pack no longer has, and a     *)
(* file of another kind.  Every item converts.                             *)
(***************************************************************************)
Leftovers == {<<0, "png">>, <<MaxPack, "png">>, <<0, "tgs">>}

InitStale ==
    /\ rf = RfIdle
    /\ variant = "bot2"
    /\ \E n \in 0..MaxPack : stickers \in GroupedKindSeqs(n)
    /\ userMode \in {"static", "anim"}
    /\ mode = userMode
    /\ linkOk = TRUE
    /\ run2 = "none"
    /\ text = GoodLink
    /\ reply = NoReply
    /\ tools = AllTools
    /\ fate = [i \in Idx |-> "ok"]
    /\ hl = "received"
    /\ err = None
    /\ dl = "idle"
    /\ w = << >>
    /\ sem = SEM_CAPACITY
    /\ file_list = << >>
    /\ files = None
    /\ folder \in (SUBSET Leftovers) \ {{}}
    /\ prog = NoProgress
    /\ sink = <<"none">>
    /\ console = <<"none">>
    /\ CvIdle
    /\ fsize = [i \in Idx |-> MiB]
    /\ PkIdle

NextStale ==
    \/ HlStart
    \/ HlAnswered
    \/ DlManifest
    \/ \E i \in DOMAIN w : WorkerFetch(i)
    \/ \E i \in DOMAIN w : WorkerEmitted(i)
    \/ DlGathered
    \/ DlDone
    \/ HlDownloaded
    \/ ConvStart
    \/ ConvItem
    \/ ConvLoopEnd
    \/ UpdateStart
    \/ \E u \in pend : UpdateReturn(u)
    \/ ConvResume
    \/ HlConverted
    \/ HlEmptyStatus
    \/ PkSend
    \/ PkTicked
    \/ PkDone
    \/ HlNotice
    \/ HlFailStatus

SpecStale == InitStale /\ [][NextStale]_vars

(***************************************************************************)
(* SpecLink: the handler from the arrival of a message to its reply or to  *)
(* its call of download_pack, for every message text of up to MaxText      *)
(* tokens, messages without text, and every mode the sender may have.      *)
(***************************************************************************)
InitLink ==
    /\ rf = RfIdle
    /\ variant \in {"bot", "bot2"}
    /\ stickers = (0 :> "static")
    /\ userMode \in {None, "static", "anim"}
    /\ mode = userMode
    /\ text \in Texts(MaxText) \cup {NoText}
    /\ linkOk = (extract_pack_name(text).raised = None)
    /\ run2 = "none"
    /\ reply = NoReply
    /\ tools = AllTools
    /\ fate = [i \in Idx |-> "ok"]
    /\ hl = "received"
    /\ err = None
    /\ dl = "idle"
    /\ w = << >>
    /\ sem = SEM_CAPACITY
    /\ file_list = << >>
    /\ files = None
    /\ folder = {}
    /\ prog = NoProgress
    /\ sink = <<"none">>
    /\ console = <<"none">>
    /\ CvIdle
    /\ fsize = [i \in Idx |-> MiB]
    /\ PkIdle

NextLink ==
    \/ HlStart
    \/ HlReplied
    \/ HlAnswered

SpecLink == InitLink /\ [][NextLink]_vars

(***************************************************************************)
(* SpecPack: the packaging stage on its own, entered when a conversion of  *)
(* up to MaxGroup stills has returned, for converted files of a common     *)
(* size and at most one heavier file among them.                           *)
(***************************************************************************)
BaseSizes == {MiB, 2 * MiB, 4 * MiB}

HeavySize == 50 * MiB

InitPack ==
    /\ rf = RfIdle
    /\ variant = "bot2"
    /\ \E n \in 1..MaxGroup : stickers = [i \in 0..(n - 1) |-> "static"]
    /\ tools = AllTools
    /\ fate = [i \in Idx |-> "ok"]
    /\ mode = "static"
    /\ userMode = mode
    /\ linkOk = TRUE
    /\ run2 = "none"
    /\ text = GoodLink
    /\ reply = NoReply
    /\ hl = "convert"
    /\ Downloaded
    /\ queue = <<>>
    /\ pend = {}
    /\ log = <<>>
    /\ cv = "returned"
    /\ names = ListDir(folder, {"png", "webp"})
    /\ ci = Len(names)
    /\ out = [k \in 1..Len(names) |-> Dst(names[k])]
    /\ ret = out
    /\ \E b \in BaseSizes, h \in Idx \cup {-1} :
          fsize = [i \in Idx |-> IF i = h THEN HeavySize ELSE b]
    /\ PkIdle

NextPack ==
    \/ HlConverted
    \/ PkSend
    \/ PkTicked
    \/ PkDone
    \/ HlNotice
    \/ HlFailStatus

SpecPack == InitPack /\ [][NextPack]_vars

(***************************************************************************)
(* SpecChunk: chunk_by_30 applied to every list of up to MaxFiles files.   *)
(***************************************************************************)
InitChunk ==
    /\ rf = RfIdle
    /\ variant = "bot2"
    /\ \E n \in 0..MaxFiles : stickers = [i \in 0..(n - 1) |-> "static"]
    /\ tools = AllTools
    /\ fate = [i \in Idx |-> "ok"]
    /\ mode = "static"
    /\ userMode = mode
    /\ linkOk = TRUE
    /\ run2 = "none"
    /\ text = GoodLink
    /\ reply = NoReply
    /\ hl = "chunk"
    /\ Downloaded
    /\ CvIdle
    /\ fsize = [i \in Idx |-> MiB]
    /\ converted = [k \in 1..total |-> <<k - 1, "webp">>]
    /\ packs = None
    /\ gi = 0
    /\ sent = <<>>
    /\ notice = 0

NextChunk == ChunkCall

SpecChunk == InitChunk /\ [][NextChunk]_vars

(***************************************************************************)
(* The claims.                                                             *)
(***************************************************************************)

\* C1: a download_pack call in which every fetch succeeds returns exactly N
\* paths, N the size of the manifest, the i-th path being the file of
\* manifest item i (its index and the extension of its kind), whatever the
\* order in which the fetches completed.
C1_OrderedByIndex ==
    dl = "returned" =>
        /\ Len(files) = total
        /\ \A i \in Idx :
              /\ files[i + 1][1] = i
              /\ files[i + 1][2] = Ext(stickers[i])
              /\ files[i + 1] \in folder

C1_Witness ==
    /\ dl = "returned"
    /\ total = MaxAcq
    /\ Len(files) = MaxAcq

\* C2: for both retrying fetchers, a call whose every attempt meets a
\* transient status has issued exactly RETRIES requests when it ends and ends
\* raising the error of the last attempt; a call whose first good response is
\* that of attempt k has issued exactly k requests when it ends and ends
\* returning the body of that response.
AllTransient(resps) ==
    \A k \in DOMAIN resps : ~resps[k].conn /\ resps[k].status \in TRANSIENT

FirstSuccess(resps, k) ==
    /\ AttemptError(resps[k]) = None
    /\ \A j \in 1..(k - 1) : AttemptError(resps[j]) # None

C2_RetryCount ==
    /\ rf.requests <= RETRIES
    /\ rf.pc \in {"returned", "raised"} =>
        /\ AllTransient(rf.resps) =>
              /\ rf.pc = "raised"
              /\ rf.requests = RETRIES
              /\ rf.last = <<"ClientResponseError", rf.resps[RETRIES].status>>
        /\ \A k \in 1..RETRIES :
              FirstSuccess(rf.resps, k) =>
                  /\ rf.pc = "returned"
                  /\ rf.requests = k
                  /\ rf.value = <<"body", k>>

C2_Witness ==
    /\ rf.pc = "returned"
    /\ rf.fetcher = "bytes"
    /\ rf.requests = RETRIES
    /\ rf.resps[1].status = 429
    /\ rf.resps[2].status = 504

\* C3: at every moment of a download_pack run the number of workers that
\* have entered the semaphore and not left it (fetching, retry backoff
\* included, or reporting progress) is at most SEM_CAPACITY.
C3_Bounded ==
    /\ Cardinality(InFlight) <= SEM_CAPACITY
    /\ sem = SEM_CAPACITY - Cardinality(InFlight) \/ dl \in {"idle", "manifest"}
    /\ sem >= 0

C3_Witness ==
    /\ Cardinality(InFlight) = SEM_CAPACITY
    /\ \E i \in DOMAIN w : w[i].pc \in {"done", "failed"}
    /\ \E i \in InFlight : i >= SEM_CAPACITY

\* C4: once the fetch of the manifest or of a single item has exhausted its
\* retries, download_pack has raised to handle_link, whatever the other
\* workers did; the handler enters neither conversion nor packaging, no
\* archive is delivered and no notice sent, and the handler can only end
\* through the failure status of its except clause.
FetchExhausted ==
    \/ dl = "raised"
    \/ \E i \in DOMAIN w : w[i].pc = "failed"

C4_FetchFailureAborts ==
    FetchExhausted =>
        /\ dl = "raised"
        /\ err = "Exception"
        /\ hl \in {"download", "fail_status", "failed"}
        /\ cv = "idle" /\ names = <<>> /\ ret = None
        /\ converted = None /\ packs = None
        /\ sent = <<>> /\ notice = 0
        /\ hl = "failed" => userMode = None

C4_Witness ==
    /\ hl = "failed"
    /\ sink = <<"failed", "Exception">>
    /\ \E i \in DOMAIN w : w[i].pc = "failed"
    /\ \E i \in DOMAIN w : w[i].pc = "done" /\ OutPath(i, stickers[i]) \in folder

(***************************************************************************)
(* Conversion claims: what the blocking routine is expected to return.     *)
(***************************************************************************)
\* the outputs of the files of ns whose item is in keep, in the order of ns
RECURSIVE DstOf(_, _)
DstOf(ns, keep) ==
    IF ns = <<>> THEN <<>>
    ELSE (IF Head(ns)[1] \in keep THEN <<Dst(Head(ns))>> ELSE <<>>)
         \o DstOf(Tail(ns), keep)

\* the routine has ended, by returning or by raising
RoutineEnded == cv \notin {"idle", "loop"}

\* the items on whose file a tool is invoked: every .webm, and every .tgs
\* when rlottie-convert is there
Invoked ==
    {i \in Idx : \/ stickers[i] = "video"
                 \/ stickers[i] = "animated" /\ "rlottie-convert" \in tools}

\* the items whose tool invocation raises
Raising == {i \in Invoked : fate[i] = "raise"}

AllAnimated == \A i \in Idx : stickers[i] \in {"animated", "video"}

\* C5 as stated: with ffmpeg and img2webp present, one raising invocation in
\* a batch of animated items costs exactly that item.  Read in the claim's
\* favour: no tool run of another item ends without its output file.
C5_AsStated ==
    (/\ mode = "anim"
     /\ "ffmpeg" \in tools /\ "img2webp" \in tools
     /\ AllAnimated
     /\ Cardinality(Raising) = 1
     /\ \A i \in Idx \ Raising : fate[i] = "ok"
     /\ RoutineEnded)
    => /\ ret # None
       /\ ret = DstOf(names, Idx \ Raising)

\* C5, amended: in the animation variant with ffmpeg, img2webp and
\* rlottie-convert present, if the tool invocation raises for exactly one
\* item of a batch of animated items and leaves its output file for every
\* other item, the conversion routine returns normally, its output is the
\* input minus exactly that item in the original order, and exactly that
\* failure is logged; in bot2.py the stage returns that output.
C5_OneFailureOneOmission ==
    (/\ mode = "anim"
     /\ tools = AllTools
     /\ AllAnimated
     /\ Cardinality(Raising) = 1
     /\ \A i \in Idx \ Raising : fate[i] = "ok"
     /\ RoutineEnded)
    => /\ ret # None
       /\ Len(ret) = Len(names) - 1
       /\ ret = DstOf(names, Idx \ Raising)
       /\ \A k \in 1..Len(ret) : \A j \in 1..Len(ret) :
             k < j => ret[k][1] < ret[j][1]
       /\ log = <<<<"warning", OutPath(CHOOSE i \in Raising : TRUE,
                                        stickers[CHOOSE i \in Raising : TRUE])>>>>
       /\ variant = "bot2" => cv \in {"thread_done", "returned"}

C5_Witness ==
    /\ mode = "anim"
    /\ variant = "bot2"
    /\ tools = AllTools
    /\ cv = "returned"
    /\ stickers = (0 :> "animated" @@ 1 :> "video" @@ 2 :> "animated")
    /\ Raising = {1}
    /\ ret = <<<<0, "webp">>, <<2, "webp">>>>

\* C6: the still-image routine never ends by raising the error of a still it
\* could not decode or encode, and what it returns is the outputs of the
\* other stills in ascending order.
C6_StaticNeverFails ==
    (mode = "static" /\ RoutineEnded)
    => /\ err # "Exception"
       /\ ret # None =>
             ret = DstOf(names, {i \in Idx : fate[i] # "raise"})

\* C7: when the tools of exactly one animated kind are missing (.tgs needs
\* rlottie-convert and img2webp, .webm needs ffmpeg) and the pack has items
\* of the other kind, the routine returns, and returns the outputs of the
\* files of the other kind.
ToolsFor(ext) ==
    IF ext = "tgs" THEN {"rlottie-convert", "img2webp"}
    ELSE IF ext = "webm" THEN {"ffmpeg"}
    ELSE {}

Usable(ext) == ToolsFor(ext) \subseteq tools

C7_MissingToolSkipsKind ==
    (/\ mode = "anim"
     /\ Usable("tgs") # Usable("webm")
     /\ \E i \in Idx : stickers[i] # "static" /\ Usable(Ext(stickers[i]))
     /\ RoutineEnded)
    => /\ ret # None
       /\ ret = DstOf(names, {i \in Idx :
                                /\ stickers[i] # "static"
                                /\ Usable(Ext(stickers[i]))
                                /\ fate[i] = "ok"})

(***************************************************************************)
(* Packaging claims.                                                       *)
(***************************************************************************)
RECURSIVE Concat(_)
Concat(ss) == IF ss = <<>> THEN <<>> ELSE Head(ss) \o Concat(Tail(ss))

Lens(ss) == [k \in DOMAIN ss |-> Len(ss[k])]

\* C8: chunk_by_30 of a list of n items returns ceil(n / 30) groups whose
\* concatenation is the list; every group but the last has 30 members and
\* the last has 1 to 30; 0 items give no group, 30 give [30], 31 give
\* [30, 1], 65 give [30, 30, 5].
C8_Chunking ==
    hl = "chunked" =>
        LET n == Len(converted) IN
        /\ Len(packs) = (n + 29) \div 30
        /\ Concat(packs) = converted
        /\ \A k \in 1..(Len(packs) - 1) : Len(packs[k]) = 30
        /\ packs # <<>> => Len(packs[Len(packs)]) \in 1..30
        /\ n = 0 => packs = <<>>
        /\ n = 30 => Lens(packs) = <<30>>
        /\ n = 31 => Lens(packs) = <<30, 1>>
        /\ n = 65 => Lens(packs) = <<30, 30, 5>>

C8_Witness ==
    /\ hl = "chunked"
    /\ Len(converted) = 65
    /\ Lens(packs) = <<30, 30, 5>>
    /\ packs[3][5] = <<64, "webp">>

\* the archives delivered for group k, in the order of their delivery
Delivered(k) == SelectSeq(sent, LAMBDA a : a.filename[1] = k)

\* the turn of group k in the packaging loop is over
Handled(k) == packs # None /\ k \in 1..Len(packs) /\ k < gi

Whole(k) == build_pack_zip(PackName(""), k, packs[k])

\* C9: for each group whose turn in the packaging loop is over: if its
\* archive is larger than 48 MiB and it has more than 15 members, exactly two
\* archives were delivered for it, A then B, the members of A followed by
\* those of B being the group's members in order, and the whole archive was
\* not delivered; otherwise exactly one archive was delivered for it, holding
\* the whole group.
C9_SizeGuardSplit ==
    \A k \in 1..gi :
        Handled(k) =>
            LET d == Delivered(k) IN
            IF zip_size(Whole(k)) > 48 * MiB /\ Len(packs[k]) > 15
            THEN /\ Len(d) = 2
                 /\ d[1].filename = <<k, "A">>
                 /\ d[2].filename = <<k, "B">>
                 /\ d[1].buf.stickers \o d[2].buf.stickers = packs[k]
            ELSE /\ Len(d) = 1
                 /\ d[1].filename = <<k, "">>
                 /\ d[1].buf = Whole(k)

C9_Witness ==
    /\ hl = "delivered"
    /\ Len(packs) = 2
    /\ Len(sent) = 3
    /\ sent[1].filename = <<1, "A">>
    /\ Len(sent[1].buf.stickers) = 15
    /\ sent[2].filename = <<1, "B">>
    /\ sent[3].filename = <<2, "">>

\* C10 as stated: no delivered archive is larger than the ceiling.
C10_AsStated ==
    \A k \in DOMAIN sent : zip_size(sent[k].buf) <= 48 * MiB

\* C10, amended: a delivered archive is larger than the ceiling only if it
\* is the whole archive of a group of at most 15 members, or the A or B half
\* of a group that was split; the whole archive of a group of more than 15
\* members is never delivered when larger than the ceiling.
C10_OverCeilingOnlyUnsplittable ==
    \A k \in DOMAIN sent :
        zip_size(sent[k].buf) > 48 * MiB =>
            \/ sent[k].filename[2] = "" /\ Len(sent[k].buf.stickers) <= 15
            \/ /\ sent[k].filename[2] \in {"A", "B"}
               /\ Len(packs[sent[k].filename[1]]) > 15
               /\ zip_size(Whole(sent[k].filename[1])) > 48 * MiB

C10_Witness ==
    /\ Len(sent) = 3
    /\ sent[1].filename = <<1, "A">>
    /\ zip_size(sent[1].buf) <= 48 * MiB
    /\ zip_size(sent[2].buf) <= 48 * MiB
    /\ sent[3].filename = <<2, "">>
    /\ zip_size(sent[3].buf) > 48 * MiB

(***************************************************************************)
(* Whole runs.                                                             *)
(***************************************************************************)
\* the converted items lo .. hi - 1 of the pack
ConvertedRange(lo, hi) == [k \in 1..(hi - lo) |-> <<lo + k - 1, "webp">>]

\* C11: a run in static mode on a pack of N >= 1 stills in which no fetch,
\* no conversion and no send fails ends having delivered exactly
\* ceil(N / 30) archives in ascending order, the k-th holding the converted
\* items 30(k-1) .. min(30k, N) - 1 under the title "<pack> (Pack <k, two
\* digits>)", and the notice.
C11_StaticRunDelivers ==
    (/\ mode = "static" /\ linkOk
     /\ total >= 1
     /\ \A i \in Idx : stickers[i] = "static" /\ fate[i] = "ok"
     /\ err # "Exception"
     /\ hl \in {"delivered", "failed", "empty"})
    => /\ hl = "delivered"
       /\ Len(sent) = (total + 29) \div 30
       /\ \A k \in DOMAIN sent :
             /\ sent[k].filename = <<k, "">>
             /\ sent[k].buf.stickers =
                    ConvertedRange(30 * (k - 1), Min(30 * k, total))
             /\ sent[k].buf.title = <<PackId, " (Pack ", Fmt02(k), ")">>

(***************************************************************************)
(* Progress claims.                                                        *)
(***************************************************************************)
\* the status message shows a progress text
IsProgress(shown) == Len(shown) = 3 /\ shown[1] \in Labels

\* C12: of two progress texts of one stage that the remote sink receives one
\* after the other, the second never carries a smaller percentage.
C12_SinkMonotone ==
    [][(IsProgress(sink) /\ IsProgress(sink') /\ sink'[1] = sink[1])
       => sink'[2] >= sink[2]]_vars

\* C13: the completion update of a stage is the last text of that stage: once
\* the remote sink shows it, the next text it receives is not a
\* non-completion update of the same stage.
C13_CompletionIsLast ==
    [][(IsProgress(sink) /\ sink[3] /\ IsProgress(sink') /\ sink'[1] = sink[1])
       => sink'[3]]_vars

\* the worker that makes its progress report in this step
Reports(i) == w[i].pc = "fetching" /\ w'[i].pc \in {"emitting", "done"}

\* C14: a non-completion report makes an emission only if its percentage
\* differs from the last emitted one, and makes one whenever it exceeds the
\* last emitted one by 2 points or more (below that it is the 0.5 s that
\* decide); a report that makes no emission leaves the throttle state and
\* the status message as they were; the completion call makes an emission
\* whatever the throttle state.
C14_ThrottleRule ==
    [][/\ \A i \in DOMAIN w :
             Reports(i) =>
                LET pct == Percent(Filled(file_list'), total)
                    last == prog["Download"]
                IN  /\ w'[i].pc = "emitting" => pct # last /\ w'[i].pct = pct
                    /\ pct - last >= 2 => w'[i].pc = "emitting"
                    /\ w'[i].pc = "done" => prog' = prog /\ sink' = sink
       /\ dl = "gather" /\ dl' # "gather" => dl' = "done_emit"
       /\ dl = "done_emit" /\ dl' # dl => prog'["Download"] = 100]_vars

C14_Witness ==
    /\ Filled(file_list) = EarlyDone + 2
    /\ prog["Download"] = Percent(EarlyDone, BigPack)
    /\ sink = StatusText("Download", Percent(EarlyDone, BigPack), FALSE)
    /\ \A i \in DOMAIN w : w[i].pc # "emitting"

\* C19: the check of the throttle and the update of its state are one atomic
\* step, so that no two non-completion emissions of one stage carry the same
\* percentage: no two emissions of the download stage that are in flight
\* together carry the same percentage.
C19_NoTwinEmissions ==
    \A i, j \in DOMAIN w :
        (i # j /\ w[i].pc = "emitting" /\ w[j].pc = "emitting")
            => w[i].pct # w[j].pct

\* C15: in both variants a progress report made from the worker thread of a
\* conversion does not raise and is run on the event loop: the step of the
\* thread that reports an item leaves the thread running with the report
\* scheduled on the loop, and the thread whose loop is over ends normally.
C15_ThreadReportsMarshalled ==
    [][/\ (cv = "loop" /\ ci' = ci + 1
                /\ (variant = "bot2" \/ mode = "static"))
            => cv' = "loop" /\ queue' = Append(queue, Tick(ci'))
       /\ (cv = "loop" /\ ci = Len(names) /\ cv' # cv)
            => cv' = "thread_done"]_vars

\* C17: when the conversion returns zero items the run reports the 'nothing
\* to convert' status and ends: no group is formed, no archive is built or
\* sent, no packaging progress is emitted and no 'all delivered' notice is
\* sent.
C17_NothingToConvert ==
    [][/\ (converted' # None /\ Len(converted') = 0) =>
             /\ hl' \in {"empty_status", "empty"}
             /\ packs' = None /\ gi' = 0
             /\ sent' = <<>>
             /\ notice' = 0
             /\ prog'["Packing"] = -1
             /\ sink'[1] # "Packing"
       /\ (hl = "empty_status" /\ hl' # hl) =>
             /\ hl' = "empty"
             /\ sink' \in {<<"empty">>, sink}
             /\ userMode' = None
       /\ hl = "empty" => hl' = "empty"]_vars

C17_Witness ==
    /\ converted # None /\ Len(converted) = 0
    /\ hl = "empty"
    /\ sink = <<"empty">>

\* C18: once a run has written its terminal status to the remote sink (the
\* failure message or the 'nothing to convert' notice), no progress emission
\* of that run reaches the sink afterwards: the status message stays as the
\* terminal write left it.
C18_TerminalStatusStays ==
    [][(hl \in {"failed", "empty"} /\ sink[1] \in {"failed", "empty"})
            => sink' = sink]_vars

\* C20: every delivered archive, the A and B archives of a split included,
\* has an author.txt equal to the pack identifier, a title.txt made of that
\* identifier and the ordinal of the group, and members named sticker_0 ..
\* sticker_{n-1} in the order of the archive's members.
C20_ArchiveContents ==
    \A k \in DOMAIN sent :
        LET a == sent[k].buf
            g == sent[k].filename[1]
        IN  /\ a.author = <<PackId>>
            /\ a.title = <<PackId, " (Pack ", Fmt02(g), ")">>
            /\ DOMAIN a.names = DOMAIN a.stickers
            /\ \A m \in DOMAIN a.names :
                  a.names[m] = <<"sticker_", m - 1, ".webp">>

\* the run under study is fetching into the pack's directory, converting
\* from it or packaging from it
Run1Uses ==
    \/ hl = "download" /\ dl = "gather"
    \/ hl = "convert"
    \/ hl \in {"send", "sendA", "sendB"}

\* C16: at most one run is active per pack identifier: when two link
\* messages naming the same pack are handled concurrently, no run deletes
\* or rewrites the pack's directory while the other is fetching into it,
\* converting from it or packaging from it.
C16_OneRunPerPack ==
    [][(run2 = "manifest" /\ run2' = "gather") => ~Run1Uses]_vars

\* every archive of every group, in the order of the packaging loop
AllParts == Concat([k \in 1..Len(packs) |-> Parts(packs, k)])

\* C21: the 'all delivered' notice is sent at most once per run, and only
\* after every group's archives have been sent and the completion update of
\* the packaging stage has been emitted; it is never sent in a run in which
\* a fetch, a conversion stage or a send failed.
C21_NoticeOnceAtEnd ==
    [][/\ notice' # notice =>
             /\ hl = "notice" /\ hl' = "delivered"
             /\ notice = 0 /\ notice' = 1
             /\ sent = AllParts
             /\ err' = None /\ dl = "returned" /\ cv = "returned"
             /\ \A i \in DOMAIN w : w[i].pc = "done"
       /\ (hl # "notice" /\ hl' = "notice") =>
             /\ hl = "pack_done"
             /\ sent = AllParts
             /\ prog'["Packing"] = 100
             /\ sink' \in {StatusText("Packing", 100, TRUE), sink}
       /\ hl = "delivered" => UNCHANGED <<hl, err, notice, sent>>
       /\ hl \in {"fail_status", "failed"} =>
             notice = 0 /\ hl' \in {"fail_status", "failed"}]_vars

C21_Witness ==
    /\ hl = "delivered"
    /\ notice = 1
    /\ Len(packs) = 2
    /\ Len(sent) = 2
    /\ prog["Packing"] = 100

\* C22: if sending an archive fails, the error reaches the top of the run
\* with no retry of that send: no later archive is sent (B after a failed A
\* included), the archives already sent stay delivered, and the run ends
\* with a failure status.
C22_SendFailureEndsRun ==
    [][/\ (hl \in {"send", "sendA", "sendB"} /\ sent' = sent /\ hl' # hl) =>
             /\ hl' = "fail_status"
             /\ err' = "Exception"
       /\ (hl \in {"fail_status", "failed"}) =>
             /\ sent' = sent
             /\ hl' \in {hl, "failed"}
             /\ notice' = notice
       /\ Len(sent') >= Len(sent) /\ SubSeq(sent', 1, Len(sent)) = sent]_vars

C22_Witness ==
    /\ hl = "failed"
    /\ sink = <<"failed", "Exception">>
    /\ Len(sent) = 1
    /\ sent[1].filename[2] = "A"
    /\ Len(packs) = 2

\* an emission of the given line returns: the console shows the line and the
\* throttle state of its stage holds its percentage, whether the remote sink
\* took the line or raised, and no exception is recorded
Emitted(label, pct, done) ==
    /\ console' = StatusText(label, pct, done)
    /\ prog'[label] = pct
    /\ sink' \in {StatusText(label, pct, done), sink}
    /\ err' = err

\* C23: if the remote sink raises during an emission, the reporter call
\* returns normally, the console line of that emission is still written, the
\* throttle state is updated exactly as after a successful emission, and the
\* stage that reported continues.
C23_SinkFailureSwallowed ==
    [][/\ \A i \in DOMAIN w :
             (w[i].pc = "emitting" /\ i \in DOMAIN w' /\ w'[i].pc # "emitting")
                => /\ Emitted("Download", w[i].pct, FALSE)
                   /\ w'[i].pc = "done" /\ dl' = dl
       /\ (dl = "done_emit" /\ dl' # dl)
             => Emitted("Download", 100, TRUE) /\ dl' = "returned"
       /\ \A u \in pend :
             u \notin pend'
                => Emitted("Convert", u.pct, u.done) /\ UNCHANGED <<cv, hl>>
       /\ (cv = "done_emit" /\ cv' # cv)
             => Emitted("Convert", 100, TRUE) /\ cv' = "returned"
       /\ (hl = "pack_tick" /\ hl' # hl)
             => /\ Emitted("Packing", Percent(gi, Len(packs)), FALSE)
                /\ hl' = PackPc(packs, gi + 1)
       /\ (hl = "pack_done" /\ hl' # hl)
             => Emitted("Packing", 100, TRUE) /\ hl' = "notice"]_vars

C23_Witness ==
    /\ hl = "delivered"
    /\ sink = <<"checking">>
    /\ console = StatusText("Packing", 100, TRUE)
    /\ prog = [l \in Labels |-> 100]

\* the files the current run has written
Written == {OutPath(i, stickers[i]) : i \in {j \in Idx : file_list[j] # None}}

\* C24: when acquisition runs for an identifier whose directory holds files
\* of an earlier run, all of them are removed before the first file of the
\* new run is written, so that the conversion only ever sees files fetched
\* for the current run's manifest.
C24_FreshDirectory ==
    /\ dl \in {"gather", "done_emit", "returned"} => folder = Written
    /\ (dl = "raised" /\ file_list # <<>>) => folder = Written
    /\ cv # "idle" =>
          /\ \A k \in DOMAIN names :
                \E i \in Idx : names[k] = OutPath(i, stickers[i])
          /\ \A k \in DOMAIN out :
                \E i \in Idx : out[k] = Dst(OutPath(i, stickers[i]))

C24_Witness ==
    /\ hl = "delivered"
    /\ mode = "anim"
    /\ stickers = (0 :> "static" @@ 1 :> "video")
    /\ names = <<<<0, "png">>, <<1, "webm">>>>
    /\ folder = {<<0, "png">>, <<1, "webm">>}

\* C25: if the provider reports failure for the manifest, acquisition fails
\* before the pack's directory is deleted or created and before any item
\* fetch is started: the files an earlier run left are unchanged and no
\* progress update is emitted.
C25_ManifestFailureTouchesNothing ==
    [][/\ (dl = "manifest" /\ dl' = "raised") =>
             /\ folder' = folder
             /\ w' = <<>> /\ file_list' = <<>> /\ sem' = SEM_CAPACITY
             /\ prog' = NoProgress /\ pend' = {} /\ queue' = <<>>
             /\ sink' = <<"checking">> /\ console' = <<"none">>
             /\ err' = "Exception"
       /\ (dl = "raised" /\ file_list = <<>>) =>
             /\ folder' = folder /\ folder \subseteq Leftovers
             /\ w' = <<>> /\ file_list' = <<>>
             /\ prog' = NoProgress /\ console' = <<"none">>
             /\ sink'[1] \in {"checking", "failed"}
             /\ hl' \in {"download", "fail_status", "failed"}]_vars

C25_Witness ==
    /\ hl = "failed"
    /\ dl = "raised"
    /\ w = <<>>
    /\ folder = Leftovers
    /\ sink = <<"failed", "Exception">>

(***************************************************************************)
(* Messages and modes.                                                     *)
(***************************************************************************)
\* the message holds no pack reference that extract_pack_name accepts
NoReference == extract_pack_name(text).raised # None

\* C26: a message without a well-formed pack reference, sent by a user who
\* has selected a mode, is answered at once with the invalid-link error: no
\* status message is created, no fetch and no directory change happens,
\* nothing is retried, and the user's selected mode is left unchanged.
C26_InvalidLinkReply ==
    [][(mode \in {"static", "anim"} /\ NoReference) =>
          /\ (hl = "received" /\ hl' # hl) => hl' = "reply"
          /\ (hl = "reply" /\ hl' # hl) =>
                /\ hl' \in {"invalid", "crashed"}
                /\ hl' = "invalid" => reply' = <<"invalid link">>
          /\ hl = "invalid" => hl' = "invalid" /\ reply' = reply
          /\ UNCHANGED <<sink, dl, rf, w, folder, userMode>>]_vars

(***************************************************************************)
(* Waits of the retrying fetchers.                                         *)
(***************************************************************************)
\* C27: a retrying fetcher waits only between attempts: a fetch that
\* succeeds on attempt k has waited k - 1 times, a fetch that fails all 3
\* attempts has waited 2 times and raises the last error directly after the
\* third failure; each wait is longer than the one before it.
C27_WaitsBetweenAttempts ==
    /\ rf.pc = "returned" => Len(rf.sleeps) = rf.requests - 1
    /\ rf.pc = "raised" =>
          /\ rf.requests = RETRIES
          /\ Len(rf.sleeps) = RETRIES - 1
    /\ \A k \in 2..Len(rf.sleeps) : rf.sleeps[k] > rf.sleeps[k - 1]

\* C28: after a run started by a well-formed link has ended (all delivered,
\* nothing to convert, or failed at any stage) the sender's selected mode is
\* cleared; a message from a user with no selected mode never creates a
\* status message, fetches, or changes any directory.
C28_ModeClearedAtEnd ==
    /\ (/\ mode \in {"static", "anim"}
        /\ ~NoReference
        /\ hl \in {"delivered", "empty", "failed", "crashed"})
          => userMode = None
    /\ mode \notin {"static", "anim"} =>
          /\ hl \in {"received", "ignored"}
          /\ sink = <<"none">> /\ reply = NoReply
          /\ dl = "idle" /\ w = <<>> /\ rf = RfIdle
          /\ folder = {}

(***************************************************************************)
(* Termination.                                                            *)
(***************************************************************************)
\* the message is a well-formed link of a user who has selected a mode
Started == mode \in {"static", "anim"} /\ ~NoReference

\* C29: every run started by a well-formed link eventually reaches exactly
\* one terminal outcome, the 'all delivered' notice, the 'nothing to
\* convert' status or a failure status, provided every network call, tool
\* invocation and send eventually returns or raises.  Stated through the
\* states in which nothing of the run is left to return, raise or be run:
\* the run has reached one of the three outcomes there.
C29_RunEnds ==
    (Started /\ ~ENABLED Next) => hl \in {"delivered", "empty", "failed"}

====
